---- MODULE Spec2Model ----
(***************************************************************************)
(* Model of the QR reader component (App): file validation, the paste,     *)
(* file-change and reset handlers, the preview effect, the decode effect   *)
(* with its image load callbacks and cancellation flag, and unmount.       *)
(*                                                                         *)
(* React state is the six useState cells.  A handler runs to completion    *)
(* and its state updates are applied together (batched).  When the         *)
(* handler changed selectedFile, the two effects that depend on it         *)
(* are pending: first the cleanups of their previous run, then their       *)
(* bodies.  All three handlers that change selectedFile run in discrete    *)
(* input events (paste, change, click), for which the render and the       *)
(* passive effects are flushed in the same browser task; the image load    *)
(* callbacks are separate browser tasks, so they run only between such     *)
(* flushes (phase = "idle").  The committed state between the handler and  *)
(* the effects is kept as a state of the model.                            *)
(***************************************************************************)
EXTENDS Integers, Sequences, FiniteSets, TLC

\* ------------------------------------------------------------- bounds
\* number of File objects the events may deliver in one run
MaxFiles == 2
\* longest clipboard item list of a paste event
MaxItems == 2

\* ---------------------------------------------------------- constants
MAX_FILE_SIZE_BYTES == 5 * 1024 * 1024

\* A MIME type is the pair <<top-level type, subtype>>: "image/png" is
\* <<"image", "png">>.
ACCEPTED_MIME_TYPES == {<<"image", "png">>, <<"image", "jpeg">>, <<"image", "webp">>}

\* null of the string-valued state cells (distinct from every string,
\* the empty string included)
Null == "<null>"

\* The user-visible messages (ASCII renderings of the literals).
MsgUnsupported == "Unsupported image format. Only PNG / JPEG / WEBP are supported."
MsgTooLarge == "Image is too large. Up to 5MB is supported."
MsgClipboardEmpty == "No image was found in the clipboard."
MsgClipboardNoImage == "No image was found in the clipboard."
MsgClipboardReadFailed == "The clipboard image could not be read."
MsgContext == "Could not get the drawing context needed to analyse the image."
MsgNotFound == "No QR code was found."
MsgLoadFailed == "Failed to load the image."

\* ------------------------------------------------------------- inputs
MimeTypes ==
  {<<"image", "png">>, <<"image", "jpeg">>, <<"image", "webp">>,
   <<"image", "gif">>, <<"text", "plain">>}

Sizes == {MAX_FILE_SIZE_BYTES - 1, MAX_FILE_SIZE_BYTES, MAX_FILE_SIZE_BYTES + 1}

\* texts the decoding routine may return as code.data
Texts ==
  {"", "hello world", "https://example.com/x", "ftp://host/x", "HTTP://h", "http://"}

\* the characters of a text
Chars(t) ==
  CASE t = "" -> <<>>
    [] t = "hello world" -> <<"h", "e", "l", "l", "o", " ", "w", "o", "r", "l", "d">>
    [] t = "https://example.com/x" -> <<"h", "t", "t", "p", "s", ":", "/", "/", "e", "x", "a", "m", "p", "l", "e", ".", "c", "o", "m", "/", "x">>
    [] t = "ftp://host/x" -> <<"f", "t", "p", ":", "/", "/", "h", "o", "s", "t", "/", "x">>
    [] t = "HTTP://h" -> <<"H", "T", "T", "P", ":", "/", "/", "h">>
    [] t = "http://" -> <<"h", "t", "t", "p", ":", "/", "/">>

\* natural width / height an image may report after a successful load
Dims == {0, 1}

\* items of a paste event's clipboardData.items
\* (readable: getAsFile() returns a File; it returns null for a string item)
ClipItem(t, s, r) == [type |-> t, size |-> s, readable |-> r]
ClipItems ==
  {ClipItem(<<"text", "plain">>, 0, FALSE),
   ClipItem(<<"image", "png">>, MAX_FILE_SIZE_BYTES, TRUE),
   ClipItem(<<"image", "png">>, MAX_FILE_SIZE_BYTES + 1, TRUE),
   ClipItem(<<"image", "png">>, MAX_FILE_SIZE_BYTES, FALSE),
   ClipItem(<<"image", "gif">>, MAX_FILE_SIZE_BYTES, TRUE)}

RECURSIVE SeqsUpTo(_, _)
SeqsUpTo(S, n) ==
  IF n = 0 THEN {<<>>}
  ELSE LET shorter == SeqsUpTo(S, n - 1)
       IN  shorter \cup {Append(s, x) : s \in {t \in shorter : Len(t) = n - 1}, x \in S}

\* A paste event: clipboardData may be missing (data = FALSE); otherwise
\* items is clipboardData.items.
NoClipboardData == [data |-> FALSE, items |-> <<>>]
Clipboards ==
  {NoClipboardData} \cup {[data |-> TRUE, items |-> s] : s \in SeqsUpTo(ClipItems, MaxItems)}

\* ------------------------------------------------------ pure functions
\* validateFile with the two checks in the other order
validateFileSizeFirst(file) ==
  IF file.size > MAX_FILE_SIZE_BYTES THEN MsgTooLarge
  ELSE IF file.type \notin ACCEPTED_MIME_TYPES THEN MsgUnsupported
  ELSE Null

\* validateFile with an inclusive size limit
validateFileInclusiveLimit(file) ==
  IF file.type \notin ACCEPTED_MIME_TYPES THEN MsgUnsupported
  ELSE IF file.size >= MAX_FILE_SIZE_BYTES THEN MsgTooLarge
  ELSE Null

validateFile(file) ==
  IF file.type \notin ACCEPTED_MIME_TYPES THEN MsgUnsupported
  ELSE IF file.size > MAX_FILE_SIZE_BYTES THEN MsgTooLarge
  ELSE Null

\* item.type.startsWith('image/')
IsImageType(type) == type[1] = "image"

\* Array.from(items).find(pred): index of the first image item, 0 if none
RECURSIVE FindFrom(_, _)
FindFrom(items, i) ==
  IF i > Len(items) THEN 0
  ELSE IF IsImageType(items[i].type) THEN i
  ELSE FindFrom(items, i + 1)

\* find() with a predicate that also wants the item to be a readable file
\* that passes validation, falling back on the first image item
RECURSIVE FindAcceptableFrom(_, _)
FindAcceptableFrom(items, i) ==
  IF i > Len(items) THEN FindFrom(items, 1)
  ELSE IF /\ IsImageType(items[i].type)
          /\ items[i].readable
          /\ validateFile([type |-> items[i].type, size |-> items[i].size]) = Null
       THEN i
  ELSE FindAcceptableFrom(items, i + 1)

FindAcceptableImageItem(items) == FindAcceptableFrom(items, 1)

FindImageItem(items) == FindFrom(items, 1)

\* ---- new URL(value), as far as the protocol and the failure cases go
Lower == <<"a", "b", "c", "d", "e", "f", "g", "h", "i", "j", "k", "l", "m", "n", "o", "p", "q", "r", "s", "t", "u", "v", "w", "x", "y", "z">>
Upper == <<"A", "B", "C", "D", "E", "F", "G", "H", "I", "J", "K", "L", "M", "N", "O", "P", "Q", "R", "S", "T", "U", "V", "W", "X", "Y", "Z">>
Digits == {"0", "1", "2", "3", "4", "5", "6", "7", "8", "9"}

IsAlpha(c) == \E i \in 1..26 : c = Lower[i] \/ c = Upper[i]
ToLower(c) ==
  IF \E i \in 1..26 : c = Upper[i] THEN Lower[CHOOSE i \in 1..26 : c = Upper[i]] ELSE c

\* leading and trailing spaces are stripped before parsing
RECURSIVE StripLeft(_)
StripLeft(cs) ==
  IF cs # <<>> /\ Head(cs) = " " THEN StripLeft(Tail(cs)) ELSE cs
RECURSIVE StripRight(_)
StripRight(cs) ==
  IF cs # <<>> /\ cs[Len(cs)] = " " THEN StripRight(SubSeq(cs, 1, Len(cs) - 1)) ELSE cs

\* scheme start state and scheme state: the index of the ":" that ends a
\* scheme, 0 when there is none (no base URL: failure)
RECURSIVE SchemeEnd(_, _)
SchemeEnd(cs, i) ==
  IF i > Len(cs) THEN 0
  ELSE IF i = 1 THEN (IF IsAlpha(cs[1]) THEN SchemeEnd(cs, 2) ELSE 0)
  ELSE IF cs[i] = ":" THEN i
  ELSE IF IsAlpha(cs[i]) \/ cs[i] \in Digits \cup {"+", "-", "."} THEN SchemeEnd(cs, i + 1)
  ELSE 0

\* schemes whose URL needs a host
HostSchemes ==
  {<<"h", "t", "t", "p">>, <<"h", "t", "t", "p", "s">>, <<"f", "t", "p">>, <<"w", "s">>, <<"w", "s", "s">>}

RECURSIVE SkipSlashes(_)
SkipSlashes(cs) ==
  IF cs # <<>> /\ Head(cs) \in {"/", "\\"} THEN SkipSlashes(Tail(cs)) ELSE cs

\* the authority: up to the first "/", "\", "?" or "#"
RECURSIVE Authority(_)
Authority(cs) ==
  IF cs = <<>> \/ Head(cs) \in {"/", "\\", "?", "#"} THEN <<>>
  ELSE <<Head(cs)>> \o Authority(Tail(cs))

\* what follows the last "@" (the credentials end there)
RECURSIVE AfterCredentials(_, _)
AfterCredentials(cs, i) ==
  IF i = 0 THEN cs
  ELSE IF cs[i] = "@" THEN SubSeq(cs, i + 1, Len(cs))
  ELSE AfterCredentials(cs, i - 1)

\* the host: up to the first ":" (the port follows)
RECURSIVE HostOf(_)
HostOf(cs) ==
  IF cs = <<>> \/ Head(cs) = ":" THEN <<>> ELSE <<Head(cs)>> \o HostOf(Tail(cs))

ForbiddenHostChars == {" ", "<", ">", "^", "|", "%", "[", "]"}

ParseURL(input) ==
  LET cs == StripRight(StripLeft(input))
      colon == SchemeEnd(cs, 1)
      scheme == [i \in 1..(colon - 1) |-> ToLower(cs[i])]
      rest == SubSeq(cs, colon + 1, Len(cs))
      authority == Authority(SkipSlashes(rest))
      hostport == AfterCredentials(authority, Len(authority))
      host == HostOf(hostport)
      port == SubSeq(hostport, Len(host) + 2, Len(hostport))
      failure == [ok |-> FALSE, protocol |-> <<>>]
  IN  IF colon = 0 THEN failure
      ELSE IF scheme \in HostSchemes
                /\ \/ host = <<>>
                   \/ \E i \in 1..Len(host) : host[i] \in ForbiddenHostChars
                   \/ \E i \in 1..Len(port) : port[i] \notin Digits
           THEN failure
      ELSE [ok |-> TRUE, protocol |-> scheme \o <<":">>]

\* isHttpUrl without the protocol test
isHttpUrlAnyScheme(value) == ParseURL(Chars(value)).ok

\* try { new URL(value) ... } catch { return false }
isHttpUrl(value) ==
  LET parsed == ParseURL(Chars(value))
  IN  parsed.ok /\ (parsed.protocol = <<"h", "t", "t", "p", ":">> \/ parsed.protocol = <<"h", "t", "t", "p", "s", ":">>)

\* JavaScript truthiness of a string-or-null cell
Truthy(s) == s # Null /\ s # ""

\* -------------------------------------------------------------- state
VARIABLES
  selectedFile,   \* useState: 0 is null, else the id of the selected File
  imageUrl,       \* useState: 0 is null, else the preview URL made for that file id
  errorMessage,   \* useState: Null or a message
  decodeResult,   \* useState: Null or the decoded text
  decodeError,    \* useState: Null or a message
  isDecoding,     \* useState
  files,          \* per File delivered so far (its id is its index): what
                  \* validateFile returned for it
  previewUrls,    \* per file id: the object URL of the preview effect
  decodeUrls,     \* per file id: the object URL of the decode effect
  cancelled,      \* per file id: the decode effect's closure variable
  load,           \* per file id: the Image of the decode effect: "none",
                  \* "loading", or the path its load callback took
  phase,          \* "idle", or the pending effect step: "cleanup", "run"
  depFile,        \* selectedFile as of the last run of the effects (their deps)
  mounted,        \* the component is mounted
  pasteListener,  \* window has the paste listener
  lastOp,         \* history: the last step taken and the file it was about
  outcomeOf       \* history: the file whose decode wrote the shown outcome, 0 if none

vars ==
  <<selectedFile, imageUrl, errorMessage, decodeResult, decodeError, isDecoding,
    files, previewUrls, decodeUrls, cancelled, load, phase, depFile, mounted,
    pasteListener, lastOp, outcomeOf>>

FileIds == 1..MaxFiles

NoUrl == [created |-> FALSE, revokes |-> 0]

\* URL.createObjectURL / URL.revokeObjectURL on the URL of file f
createObjectURL(urls, f) == [urls EXCEPT ![f] = [created |-> TRUE, revokes |-> 0]]
revokeObjectURL(urls, f) == [urls EXCEPT ![f].revokes = @ + 1]

Live(u) == u.created /\ u.revokes = 0

\* no File (the candidate of a step that validates none)
NoFile == [type |-> <<"", "">>, size |-> 0]

\* a step, the file id it was about, the candidate it validated, what the
\* decoding routine returned in it, and (for a paste) whether an item
\* after the one it took would have passed validation
Op(name, f) ==
  [op |-> name, file |-> f, candidate |-> NoFile, code |-> Null, later |-> FALSE]
OpOn(name, f, file) ==
  [op |-> name, file |-> f, candidate |-> file, code |-> Null, later |-> FALSE]
OpPaste(name, f, file, later) ==
  [op |-> name, file |-> f, candidate |-> file, code |-> Null, later |-> later]
OpDecoded(name, f, code) ==
  [op |-> name, file |-> f, candidate |-> NoFile, code |-> code, later |-> FALSE]

Init ==
  /\ selectedFile = 0
  /\ imageUrl = 0
  /\ errorMessage = Null
  /\ decodeResult = Null
  /\ decodeError = Null
  /\ isDecoding = FALSE
  /\ files = <<>>
  /\ previewUrls = [f \in FileIds |-> NoUrl]
  /\ decodeUrls = [f \in FileIds |-> NoUrl]
  /\ cancelled = [f \in FileIds |-> FALSE]
  /\ load = [f \in FileIds |-> "none"]
  /\ phase = "idle"
  /\ depFile = 0
  /\ mounted = TRUE
  /\ pasteListener = TRUE
  /\ lastOp = Op("init", 0)
  /\ outcomeOf = 0

\* The effects depend on [selectedFile]: they are pending when a handler
\* left selectedFile different from the value of their last run.
PhaseAfter(newSelected) == IF newSelected # depFile THEN "cleanup" ELSE "idle"

EffectsUnchanged == UNCHANGED <<previewUrls, decodeUrls, cancelled, load, depFile,
                                mounted, pasteListener>>

\* ------------------------------------------------------------ handlers
\* handlePaste up to the validation: the three early returns
PasteFailure(event) ==
  IF ~event.data \/ Len(event.items) = 0 THEN "pasteEmpty"
  ELSE IF FindImageItem(event.items) = 0 THEN "pasteNoImage"
  ELSE IF ~event.items[FindImageItem(event.items)].readable THEN "pasteUnreadable"
  ELSE "none"

\* PasteFailureMessage with the empty clipboard reported as unreadable
PasteFailureMessageSwapped(failure) ==
  CASE failure = "pasteEmpty" -> MsgClipboardReadFailed
    [] failure = "pasteNoImage" -> MsgClipboardNoImage
    [] failure = "pasteUnreadable" -> MsgClipboardReadFailed

PasteFailureMessage(failure) ==
  CASE failure = "pasteEmpty" -> MsgClipboardEmpty
    [] failure = "pasteNoImage" -> MsgClipboardNoImage
    [] failure = "pasteUnreadable" -> MsgClipboardReadFailed

\* imageItem.getAsFile() of a readable item
getAsFile(item) == [type |-> item.type, size |-> item.size]

\* PasteSelection that clears the selection on a rejection
PasteSelectionClears(id, validationError) ==
  IF validationError # Null THEN 0 ELSE id

\* history: an item after the one handlePaste took is an image file that
\* passes validation
LaterAcceptable(items) ==
  \E j \in (FindImageItem(items) + 1)..Len(items) :
    /\ IsImageType(items[j].type)
    /\ items[j].readable
    /\ validateFile(getAsFile(items[j])) = Null

\* the tail of handlePaste: a rejected file leaves the selection alone
PasteSelection(id, validationError) ==
  IF validationError # Null THEN selectedFile ELSE id

handlePaste(event) ==
  /\ pasteListener
  /\ phase = "idle"
  /\ LET failure == PasteFailure(event)
     IN  IF failure # "none"
         THEN /\ errorMessage' = PasteFailureMessage(failure)
              /\ lastOp' = Op(failure, 0)
              /\ UNCHANGED <<selectedFile, files, phase>>
         ELSE /\ Len(files) < MaxFiles
              /\ LET file == getAsFile(event.items[FindImageItem(event.items)])
                     id == Len(files) + 1
                     validationError == validateFile(file)
                 IN  /\ files' = Append(files, validationError)
                     /\ errorMessage' = validationError
                     /\ selectedFile' = PasteSelection(id, validationError)
                     /\ phase' = PhaseAfter(selectedFile')
                     /\ lastOp' = OpPaste(IF validationError # Null THEN "pasteRejected"
                                          ELSE "pasteAccepted", id, file,
                                          LaterAcceptable(event.items))
  /\ UNCHANGED <<imageUrl, decodeResult, decodeError, isDecoding, outcomeOf>>
  /\ EffectsUnchanged

\* handleFileChange with event.target.files empty
handleFileChangeNoFile ==
  /\ mounted
  /\ phase = "idle"
  /\ lastOp' = Op("changeNoFile", 0)
  /\ UNCHANGED <<selectedFile, imageUrl, errorMessage, decodeResult, decodeError,
                 isDecoding, files, phase, outcomeOf>>
  /\ EffectsUnchanged

\* ChangeSelection without the return after a rejection
ChangeSelectionAlways(id, validationError) == id

\* ChangeSelection that leaves the selection alone on a rejection
ChangeSelectionKeeps(id, validationError) ==
  IF validationError # Null THEN selectedFile ELSE id

\* the tail of handleFileChange: a rejected file clears the selection
ChangeSelection(id, validationError) ==
  IF validationError # Null THEN 0 ELSE id

handleFileChange(file) ==
  /\ mounted
  /\ phase = "idle"
  /\ Len(files) < MaxFiles
  /\ LET id == Len(files) + 1
         validationError == validateFile(file)
     IN  /\ files' = Append(files, validationError)
         /\ errorMessage' = validationError
         /\ selectedFile' = ChangeSelection(id, validationError)
         /\ phase' = PhaseAfter(selectedFile')
         /\ lastOp' = OpOn(IF validationError # Null THEN "changeRejected"
                           ELSE "changeAccepted", id, file)
  /\ UNCHANGED <<imageUrl, decodeResult, decodeError, isDecoding, outcomeOf>>
  /\ EffectsUnchanged

\* The reset button is rendered only while a file is selected.
handleReset ==
  /\ mounted
  /\ phase = "idle"
  /\ selectedFile # 0
  /\ selectedFile' = 0
  /\ errorMessage' = Null
  /\ decodeResult' = Null
  /\ decodeError' = Null
  /\ isDecoding' = FALSE
  /\ outcomeOf' = 0
  /\ phase' = PhaseAfter(0)
  /\ lastOp' = Op("reset", selectedFile)
  /\ UNCHANGED <<imageUrl, files>>
  /\ EffectsUnchanged

\* ------------------------------------------------------------- effects
\* CleanupOf with a decode cleanup that only revokes the URL
CleanupOfWithoutCancel(f) ==
  IF f = 0
  THEN UNCHANGED <<previewUrls, decodeUrls, cancelled>>
  ELSE /\ previewUrls' = revokeObjectURL(previewUrls, f)
       /\ decodeUrls' = revokeObjectURL(decodeUrls, f)
       /\ UNCHANGED cancelled

\* CleanupOf with a preview effect that returns no cleanup
CleanupOfWithoutPreviewRevoke(f) ==
  IF f = 0
  THEN UNCHANGED <<previewUrls, decodeUrls, cancelled>>
  ELSE /\ cancelled' = [cancelled EXCEPT ![f] = TRUE]
       /\ decodeUrls' = revokeObjectURL(decodeUrls, f)
       /\ UNCHANGED previewUrls

\* Cleanups of the previous run of the two [selectedFile] effects.  A run
\* with no file selected returned no cleanup.
CleanupOf(f) ==
  IF f = 0
  THEN UNCHANGED <<previewUrls, decodeUrls, cancelled>>
  ELSE /\ previewUrls' = revokeObjectURL(previewUrls, f)
       /\ cancelled' = [cancelled EXCEPT ![f] = TRUE]
       /\ decodeUrls' = revokeObjectURL(decodeUrls, f)

EffectCleanup ==
  /\ phase = "cleanup"
  /\ CleanupOf(depFile)
  /\ phase' = "run"
  /\ lastOp' = Op("cleanup", depFile)
  /\ UNCHANGED <<selectedFile, imageUrl, errorMessage, decodeResult, decodeError,
                 isDecoding, files, load, depFile, mounted, pasteListener, outcomeOf>>

\* PreviewEffect that stores the new URL only when none is stored
PreviewEffectKeepsFirstUrl ==
  IF selectedFile = 0
  THEN /\ imageUrl' = 0
       /\ decodeResult' = Null
       /\ decodeError' = Null
       /\ isDecoding' = FALSE
       /\ UNCHANGED previewUrls
  ELSE /\ previewUrls' = createObjectURL(previewUrls, selectedFile)
       /\ imageUrl' = IF imageUrl = 0 THEN selectedFile ELSE imageUrl

\* PreviewEffect whose no-file branch leaves the preview URL in place
PreviewEffectKeepsUrl ==
  IF selectedFile = 0
  THEN /\ decodeResult' = Null
       /\ decodeError' = Null
       /\ isDecoding' = FALSE
       /\ UNCHANGED <<imageUrl, previewUrls>>
  ELSE /\ previewUrls' = createObjectURL(previewUrls, selectedFile)
       /\ imageUrl' = selectedFile

\* Body of the preview effect.
PreviewEffect ==
  IF selectedFile = 0
  THEN /\ imageUrl' = 0
       /\ decodeResult' = Null
       /\ decodeError' = Null
       /\ isDecoding' = FALSE
       /\ UNCHANGED previewUrls
  ELSE /\ previewUrls' = createObjectURL(previewUrls, selectedFile)
       /\ imageUrl' = selectedFile

\* DecodeEffect that does not clear the previous result
DecodeEffectKeepsResult ==
  IF selectedFile = 0
  THEN UNCHANGED <<decodeUrls, load>>
  ELSE /\ isDecoding' = TRUE
       /\ decodeError' = Null
       /\ UNCHANGED decodeResult
       /\ decodeUrls' = createObjectURL(decodeUrls, selectedFile)
       /\ load' = [load EXCEPT ![selectedFile] = "loading"]

\* Body of the decode effect: image.src = url starts the load.
DecodeEffect ==
  IF selectedFile = 0
  THEN UNCHANGED <<decodeUrls, load>>
  ELSE /\ isDecoding' = TRUE
       /\ decodeError' = Null
       /\ decodeResult' = Null
       /\ decodeUrls' = createObjectURL(decodeUrls, selectedFile)
       /\ load' = [load EXCEPT ![selectedFile] = "loading"]

\* Bodies of the preview effect and of the decode effect, in that order.
EffectRun ==
  /\ phase = "run"
  /\ PreviewEffect
  /\ DecodeEffect
  /\ outcomeOf' = 0
  /\ depFile' = selectedFile
  /\ phase' = "idle"
  /\ lastOp' = Op("run", selectedFile)
  /\ UNCHANGED <<selectedFile, errorMessage, files, cancelled, mounted, pasteListener>>

\* ------------------------------------------------------ image callbacks
\* OnloadPath without the cancellation check
OnloadPathIgnoringCancelled(f, w, h, hasContext, code) ==
  IF ~hasContext THEN "nocontext"
  ELSE IF w = 0 \/ h = 0 THEN "zerosize"
  ELSE IF code = Null THEN "notfound"
  ELSE "found"

\* What image.onload does for the Image of file f, given the natural size
\* of the image, whether a 2d context is available and what the decoding
\* routine returns (Null: no code).  On the "zerosize" path getImageData
\* throws (a width or height of zero) and nothing catches it: the rest of
\* the callback does not run.
OnloadPath(f, w, h, hasContext, code) ==
  IF cancelled[f] THEN "cancelled"
  ELSE IF ~hasContext THEN "nocontext"
  ELSE IF w = 0 \/ h = 0 THEN "zerosize"
  ELSE IF code = Null THEN "notfound"
  ELSE "found"

imageOnload(f, w, h, hasContext, code) ==
  /\ phase = "idle"
  /\ load[f] = "loading"
  /\ LET path == OnloadPath(f, w, h, hasContext, code)
     IN  /\ load' = [load EXCEPT ![f] = path]
         /\ lastOp' = IF path \in {"notfound", "found"} THEN OpDecoded(path, f, code)
                       ELSE Op(path, f)
         /\ CASE path = "cancelled" ->
                   /\ decodeUrls' = revokeObjectURL(decodeUrls, f)
                   /\ UNCHANGED <<decodeResult, decodeError, isDecoding, outcomeOf>>
              [] path = "nocontext" ->
                   /\ decodeError' = MsgContext
                   /\ isDecoding' = FALSE
                   /\ decodeUrls' = revokeObjectURL(decodeUrls, f)
                   /\ outcomeOf' = f
                   /\ UNCHANGED decodeResult
              [] path = "zerosize" ->
                   UNCHANGED <<decodeResult, decodeError, isDecoding, decodeUrls, outcomeOf>>
              [] path = "notfound" ->
                   /\ decodeError' = MsgNotFound
                   /\ isDecoding' = FALSE
                   /\ decodeUrls' = revokeObjectURL(decodeUrls, f)
                   /\ outcomeOf' = f
                   /\ UNCHANGED decodeResult
              [] path = "found" ->
                   /\ decodeResult' = code
                   /\ isDecoding' = FALSE
                   /\ decodeUrls' = revokeObjectURL(decodeUrls, f)
                   /\ outcomeOf' = f
                   /\ UNCHANGED decodeError
  /\ UNCHANGED <<selectedFile, imageUrl, errorMessage, files, previewUrls, cancelled,
                 phase, depFile, mounted, pasteListener>>

imageOnerror(f) ==
  /\ phase = "idle"
  /\ load[f] = "loading"
  /\ IF cancelled[f]
     THEN /\ load' = [load EXCEPT ![f] = "errorCancelled"]
          /\ lastOp' = Op("errorCancelled", f)
          /\ UNCHANGED <<decodeError, isDecoding, outcomeOf>>
     ELSE /\ load' = [load EXCEPT ![f] = "error"]
          /\ decodeError' = MsgLoadFailed
          /\ isDecoding' = FALSE
          /\ outcomeOf' = f
          /\ lastOp' = Op("error", f)
  /\ decodeUrls' = revokeObjectURL(decodeUrls, f)
  /\ UNCHANGED <<selectedFile, imageUrl, errorMessage, decodeResult, files, previewUrls,
                 cancelled, phase, depFile, mounted, pasteListener>>

\* -------------------------------------------------------------- unmount
\* Unmounting runs the cleanup of every effect: the two [selectedFile]
\* effects and the paste effect.
\* PasteEffectCleanup of a paste effect that returns no cleanup
PasteEffectCleanupMissing == UNCHANGED pasteListener

\* Cleanup of the paste effect: window.removeEventListener('paste', handlePaste)
PasteEffectCleanup == pasteListener' = FALSE

Unmount ==
  /\ mounted
  /\ phase = "idle"
  /\ CleanupOf(depFile)
  /\ PasteEffectCleanup
  /\ mounted' = FALSE
  /\ lastOp' = Op("unmount", depFile)
  /\ UNCHANGED <<selectedFile, imageUrl, errorMessage, decodeResult, decodeError,
                 isDecoding, files, load, phase, depFile, outcomeOf>>

\* --------------------------------------------------------------- render
\* The blocks of the "Decode Result" panel, which is rendered while a file
\* is selected.
PanelShown == mounted /\ selectedFile # 0
ShowsPending == PanelShown /\ isDecoding
ShowsError == PanelShown /\ ~isDecoding /\ Truthy(decodeError)
ShowsResult == PanelShown /\ ~isDecoding /\ Truthy(decodeResult)
ShowsPlaceholder ==
  PanelShown /\ ~isDecoding /\ ~Truthy(decodeError) /\ ~Truthy(decodeResult)
\* the anchor inside the result block
ShowsLink == ShowsResult /\ isHttpUrl(decodeResult)

\* the preview image, inside the block rendered while a file is selected
ShowsPreview == mounted /\ selectedFile # 0 /\ imageUrl # 0

\* ---------------------------------------------------------------- spec
Next ==
  \/ \E event \in Clipboards : handlePaste(event)
  \/ handleFileChangeNoFile
  \/ \E t \in MimeTypes, s \in Sizes : handleFileChange([type |-> t, size |-> s])
  \/ handleReset
  \/ EffectCleanup
  \/ EffectRun
  \/ \E f \in FileIds, w \in Dims, h \in Dims, hasContext \in BOOLEAN,
        code \in Texts \cup {Null} : imageOnload(f, w, h, hasContext, code)
  \/ \E f \in FileIds : imageOnerror(f)
  \/ Unmount

Spec == Init /\ [][Next]_vars

\* ============================================================== claims
Validated == {"pasteRejected", "pasteAccepted", "changeRejected", "changeAccepted"}
Rejected == {"pasteRejected", "changeRejected"}
PasteFailures == {"pasteEmpty", "pasteNoImage", "pasteUnreadable"}
Callbacks == {"cancelled", "nocontext", "zerosize", "notfound", "found", "error",
              "errorCancelled"}
\* the paths of a load callback that publish an outcome
Published == {"nocontext", "notfound", "found", "error"}

\* C1: When a candidate is replaced while its decode is in flight, the
\* outcome shown once the effects of the selection have run is never one
\* written by the decode of a file other than the selected one, and once
\* the selected file's load callback has completed the outcome shown is
\* the one that callback wrote.
C1_NoStaleOutcome ==
  /\ (phase = "idle" /\ outcomeOf # 0) => outcomeOf = selectedFile
  /\ (mounted /\ phase = "idle" /\ selectedFile # 0
        /\ load[selectedFile] \in Published)
       => /\ outcomeOf = selectedFile
          /\ ~isDecoding
          /\ (decodeResult # Null \/ decodeError # Null)

\* A (file 1) was replaced by B (file 2) while loading, B's decode found a
\* code, and A's load callback has fired since and was discarded.
C1_Witness ==
  /\ selectedFile = 2
  /\ lastOp = Op("cancelled", 1)
  /\ load[2] = "found"
  /\ outcomeOf = 2
  /\ decodeResult # Null

\* C2: A load callback (success or error) that fires when no file is
\* selected leaves decodeResult, decodeError and isDecoding as they were,
\* which is empty.
C2_ClearedDecodeDiscarded ==
  [][\A f \in FileIds :
       (load[f] = "loading" /\ load'[f] # "loading" /\ selectedFile = 0)
         => /\ UNCHANGED <<decodeResult, decodeError, isDecoding>>
            /\ decodeResult' = Null
            /\ decodeError' = Null
            /\ isDecoding' = FALSE]_vars

\* The decode of file 1 was in flight when the selection was cleared, and
\* its load callback has fired afterwards.
C2_Witness ==
  /\ mounted
  /\ selectedFile = 0
  /\ lastOp.op \in {"cancelled", "errorCancelled"}
  /\ lastOp.file = 1
  /\ decodeResult = Null /\ decodeError = Null /\ ~isDecoding

\* C3: A candidate whose type is none of image/png, image/jpeg, image/webp
\* is rejected as an unsupported format, whatever its size.
C3_TypeCheckFirst ==
  (lastOp.op \in Validated
     /\ lastOp.candidate.type \notin
          {<<"image", "png">>, <<"image", "jpeg">>, <<"image", "webp">>})
    => /\ errorMessage = MsgUnsupported
       /\ files[lastOp.file] = MsgUnsupported
       /\ lastOp.op \in Rejected

\* An oversized file of an unsupported type was rejected as unsupported.
C3_Witness ==
  /\ lastOp.op = "changeRejected"
  /\ lastOp.candidate = [type |-> <<"image", "gif">>, size |-> 5242881]
  /\ errorMessage = MsgUnsupported

\* C4: A candidate of an accepted type is accepted when its size is at
\* most 5,242,880 bytes and rejected as too large from 5,242,881 bytes on.
C4_SizeBoundary ==
  (lastOp.op \in Validated
     /\ lastOp.candidate.type \in
          {<<"image", "png">>, <<"image", "jpeg">>, <<"image", "webp">>})
    => /\ lastOp.candidate.size <= 5242880
         => /\ errorMessage = Null
            /\ files[lastOp.file] = Null
            /\ selectedFile = lastOp.file
       /\ lastOp.candidate.size >= 5242881
         => /\ errorMessage = MsgTooLarge
            /\ files[lastOp.file] = MsgTooLarge
            /\ lastOp.op \in Rejected

\* A file of exactly 5,242,880 bytes was accepted after one of 5,242,881
\* bytes had been rejected as too large.
C4_Witness ==
  /\ lastOp.op = "changeAccepted"
  /\ lastOp.file = 2
  /\ lastOp.candidate = [type |-> <<"image", "webp">>, size |-> 5242880]
  /\ files[1] = MsgTooLarge
  /\ selectedFile = 2

\* C5: Each of the three paste failures (no items, no image item, image
\* item that yields no file) shows a message that neither of the other
\* two failures shows.
C5_DistinctPasteMessages ==
  \A other \in PasteFailures :
    (lastOp.op \in PasteFailures /\ lastOp.op # other)
      => errorMessage # PasteFailureMessage(other)

\* C6: A paste event with no clipboard data or with zero items sets the
\* error message to the clipboard-empty message, leaves selectedFile as it
\* was and triggers no effect.
C6_EmptyPaste ==
  [][lastOp'.op = "pasteEmpty"
       => /\ errorMessage' = "No image was found in the clipboard."
          /\ selectedFile' = selectedFile
          /\ phase' = "idle"
          /\ UNCHANGED <<imageUrl, decodeResult, decodeError, isDecoding, files>>]_vars

\* An empty paste arrived while a file was selected: the message is
\* shown and the file is still selected.
C6_Witness ==
  /\ lastOp.op = "pasteEmpty"
  /\ errorMessage = MsgClipboardEmpty
  /\ selectedFile = 1
  /\ decodeResult # Null

\* C7: Right after a reset the selection, the decode outcome and the error
\* message are cleared; once the effects have run with no file selected
\* the preview URL, the decoded text, the decode error and the pending
\* flag are all cleared; and no effect step or load callback brings an
\* error message or a selection back, nor does a load callback that fires
\* with no file selected change any of the six cells.
C7_ResetClearsAll ==
  /\ [](lastOp.op = "reset"
          => /\ selectedFile = 0
             /\ errorMessage = Null
             /\ decodeResult = Null
             /\ decodeError = Null
             /\ ~isDecoding)
  /\ []((selectedFile = 0 /\ phase = "idle")
          => /\ imageUrl = 0
             /\ decodeResult = Null
             /\ decodeError = Null
             /\ ~isDecoding)
  /\ [][(lastOp'.op \in Callbacks \cup {"cleanup", "run"})
          => /\ errorMessage' = errorMessage
             /\ selectedFile' = selectedFile
             /\ (selectedFile = 0 /\ lastOp'.op \in Callbacks)
                  => UNCHANGED <<imageUrl, decodeResult, decodeError, isDecoding>>]_vars

\* The only file delivered was decoded successfully, then reset, and the
\* effects of the reset have run.
C7_Witness ==
  /\ Len(files) = 1
  /\ load[1] = "found"
  /\ lastOp = Op("run", 0)
  /\ errorMessage = Null
  /\ selectedFile = 0
  /\ imageUrl = 0
  /\ decodeResult = Null

\* C8: The object URL made for a decode is revoked once that decode has
\* resolved (its load callback has run, on any path) or been cancelled.
C8_DecodeUrlReleased ==
  \A f \in FileIds :
    (decodeUrls[f].created /\ (load[f] \notin {"none", "loading"} \/ cancelled[f]))
      => decodeUrls[f].revokes >= 1

\* C9: A file rejected by validation is never the selected file, no object
\* URL is made for it, no image load is started for it, no outcome is
\* written for it, and the step that rejects it leaves isDecoding alone.
C9_RejectedNeverDecoded ==
  /\ [](\A id \in 1..Len(files) :
          files[id] # Null
            => /\ selectedFile # id
               /\ depFile # id
               /\ imageUrl # id
               /\ ~previewUrls[id].created
               /\ ~decodeUrls[id].created
               /\ load[id] = "none"
               /\ outcomeOf # id)
  /\ [][lastOp'.op \in Rejected => isDecoding' = isDecoding]_vars

\* A file rejected by the file input while another file was selected and
\* decoding; the effects of the rejection have run.
C9_Witness ==
  /\ Len(files) = 2
  /\ files[1] = Null
  /\ files[2] # Null
  /\ load[1] # "none"
  /\ load[2] = "none"
  /\ lastOp = Op("run", 0)
  /\ errorMessage = files[2]

\* the number of decode outcomes that hold: pending, success, failure
OutcomesHeld ==
  (IF isDecoding THEN 1 ELSE 0) + (IF decodeResult # Null THEN 1 ELSE 0)
    + (IF decodeError # Null THEN 1 ELSE 0)

\* C10 as stated: in every state with a selected file exactly one of
\* pending, success and failure holds.
C10_ExactlyOneAlways == selectedFile # 0 => OutcomesHeld = 1

\* C10: In every state with a selected file whose effects have run,
\* exactly one of pending, success and failure holds; in every state at
\* most one of them holds.
C10_ExactlyOneOnceEffectsRan ==
  /\ (selectedFile # 0 /\ phase = "idle") => OutcomesHeld = 1
  /\ OutcomesHeld <= 1

\* The second file was selected after the first was decoded, and its
\* decode is pending.
C10_Witness ==
  /\ selectedFile = 2
  /\ phase = "idle"
  /\ load[1] = "found"
  /\ isDecoding
  /\ decodeResult = Null
  /\ decodeError = Null

\* C11: After the load-success callback of a decode that is not cancelled,
\* a null result of the decoding routine shows the not-found error, and a
\* code with text t shows the result block with t, not the placeholder,
\* for every t, the empty string included.
C11_OutcomeShown ==
  /\ (mounted /\ lastOp.op = "notfound")
       => /\ ShowsError
          /\ decodeError = MsgNotFound
          /\ ~ShowsResult
  /\ (mounted /\ lastOp.op = "found")
       => /\ decodeResult = lastOp.code
          /\ ShowsResult
          /\ ~ShowsPlaceholder
          /\ ~ShowsError

\* C12: The result block shows the link exactly when the decoded text
\* parses as a URL whose scheme is http or https: "https://example.com/x"
\* is a link, "hello world" (no parse) and "ftp://host/x" (other scheme)
\* are not, and every text is classified (a parse failure gives false).
C12_LinkDetection ==
  ShowsResult
    => /\ decodeResult = "https://example.com/x" => ShowsLink
       /\ decodeResult = "hello world" => ~ShowsLink
       /\ decodeResult = "ftp://host/x" => ~ShowsLink
       /\ ShowsLink \in BOOLEAN
       /\ ShowsLink <=>
            /\ ParseURL(Chars(decodeResult)).ok
            /\ ParseURL(Chars(decodeResult)).protocol
                 \in {<<"h", "t", "t", "p", ":">>, <<"h", "t", "t", "p", "s", ":">>}

\* An ftp URL has been decoded and is shown without a link.
C12_Witness ==
  /\ ShowsResult
  /\ decodeResult = "ftp://host/x"
  /\ lastOp.op = "found"
  /\ ~ShowsLink

\* C13: When the image of the selected file loads with a natural width or
\* height of zero, the decode resolves to the image-load failure:
\* isDecoding is false and the load-failed error is shown.
C13_ZeroSizeIsLoadFailure ==
  (mounted /\ lastOp.op = "zerosize")
    => /\ ~isDecoding
       /\ decodeError = MsgLoadFailed
       /\ ShowsError

\* C14: Every accepted file gets a preview URL when its effects run and a
\* rejected file gets none; a preview URL is unrevoked only while it is
\* the one of the file the effects last ran for and the component is
\* mounted, so at most one is unrevoked; once superseded, cleared or
\* unmounted it has been revoked, and no preview URL is revoked twice.
C14_PreviewUrlLifecycle ==
  /\ \A f \in 1..Len(files) :
       previewUrls[f].created
         <=> (files[f] = Null /\ (f # selectedFile \/ depFile = f))
  /\ \A f \in FileIds :
       /\ previewUrls[f].revokes <= 1
       /\ Live(previewUrls[f]) => (f = depFile /\ mounted)
       /\ (previewUrls[f].created /\ (f # depFile \/ ~mounted))
            => previewUrls[f].revokes = 1
  /\ Cardinality({f \in FileIds : Live(previewUrls[f])}) <= 1

\* The first file's preview URL was revoked when the second file
\* superseded it; the second file's is the one unrevoked URL.
C14_Witness ==
  /\ mounted
  /\ depFile = 2
  /\ previewUrls[1] = [created |-> TRUE, revokes |-> 1]
  /\ previewUrls[2] = [created |-> TRUE, revokes |-> 0]

\* C15: The paste listener is on the window exactly while the component
\* is mounted; after unmount no step changes the six state cells, the
\* selection's files or the effects' dependencies: the only steps left
\* are load callbacks, every decode in flight has been cancelled, and a
\* cancelled callback updates no state.
C15_UnmountDetaches ==
  /\ [](pasteListener <=> mounted)
  /\ [](~mounted => \A f \in FileIds : load[f] = "loading" => cancelled[f])
  /\ [][~mounted
          => /\ lastOp'.op \in {"cancelled", "errorCancelled"}
             /\ UNCHANGED <<selectedFile, imageUrl, errorMessage, decodeResult,
                            decodeError, isDecoding, files, depFile, mounted>>]_vars

\* The component was unmounted while the decode of file 1 was pending, and
\* the load callback has fired since: the state cells are as they were.
C15_Witness ==
  /\ ~mounted
  /\ lastOp.op \in {"cancelled", "errorCancelled"}
  /\ lastOp.file = 1
  /\ selectedFile = 1
  /\ isDecoding
  /\ decodeResult = Null
  /\ decodeError = Null

\* C16: A paste that fails (no items, no image item, unreadable item or a
\* file rejected by validation) changes errorMessage only: the selection,
\* the preview URL, the decode outcome and isDecoding are as before, no
\* effect is triggered and no decode in flight is cancelled.
C16_FailedPasteKeepsState ==
  [][lastOp'.op \in PasteFailures \cup {"pasteRejected"}
       => /\ UNCHANGED <<selectedFile, imageUrl, decodeResult, decodeError, isDecoding,
                         previewUrls, decodeUrls, cancelled, load, depFile>>
          /\ phase' = "idle"
          /\ errorMessage' # Null]_vars

\* A paste was rejected by validation while file 1 was selected and its
\* decode in flight: the file is still selected and still decoding.
C16_Witness ==
  /\ lastOp.op = "pasteRejected"
  /\ selectedFile = 1
  /\ imageUrl = 1
  /\ isDecoding
  /\ load[1] = "loading"
  /\ ~cancelled[1]
  /\ errorMessage \in {MsgUnsupported, MsgTooLarge}

\* C17: Right after a file selection rejected by validation no file is
\* selected and errorMessage is the validation message of that file; once
\* the effects have run with no file selected the preview URL and the
\* decode outcome are cleared, isDecoding is false and every decode still
\* in flight is cancelled; the effect steps keep the message; and a file
\* change that carries no file changes nothing.
C17_RejectedSelectionClears ==
  /\ [](lastOp.op = "changeRejected"
          => /\ selectedFile = 0
             /\ errorMessage \in {MsgUnsupported, MsgTooLarge}
             /\ errorMessage = files[lastOp.file])
  /\ []((selectedFile = 0 /\ phase = "idle")
          => /\ imageUrl = 0
             /\ decodeResult = Null
             /\ decodeError = Null
             /\ ~isDecoding
             /\ \A f \in FileIds : load[f] = "loading" => cancelled[f])
  /\ [][lastOp'.op \in {"cleanup", "run"} => errorMessage' = errorMessage]_vars
  /\ [][lastOp'.op = "changeNoFile"
          => UNCHANGED <<selectedFile, imageUrl, errorMessage, decodeResult, decodeError,
                         isDecoding, files, previewUrls, decodeUrls, cancelled, load,
                         phase, depFile, mounted, pasteListener, outcomeOf>>]_vars

\* File 2 was rejected by the file input while file 1 was selected and
\* decoding; the effects have run: nothing is selected or shown, the
\* message stays, and the decode of file 1 is cancelled.
C17_Witness ==
  /\ lastOp = Op("run", 0)
  /\ Len(files) = 2
  /\ files[2] # Null
  /\ errorMessage = files[2]
  /\ selectedFile = 0
  /\ imageUrl = 0
  /\ ~isDecoding
  /\ load[1] = "loading"
  /\ cancelled[1]

\* C18: Once the load callback (success or error) of the selected file has
\* fired, isDecoding is false and a decode outcome is set: the panel does
\* not stay pending.
C18_ResolvedNotPending ==
  (mounted /\ phase = "idle" /\ selectedFile # 0
     /\ load[selectedFile] \notin {"none", "loading"})
    => /\ ~isDecoding
       /\ (decodeResult # Null \/ decodeError # Null)

\* C19 as stated: in every state, the effects of a selection pending or
\* not, a preview that is shown is an unrevoked object URL made for the
\* selected file.
C19_PreviewAlwaysCurrent ==
  ShowsPreview => (imageUrl = selectedFile /\ Live(previewUrls[imageUrl]))

\* C19: In every state in which no effect of a selection is pending, a
\* preview that is shown is an unrevoked object URL made for the selected
\* file.
C19_PreviewCurrentOnceEffectsRan ==
  (ShowsPreview /\ phase = "idle")
    => (imageUrl = selectedFile /\ Live(previewUrls[imageUrl]))

\* File 2 superseded file 1 and its effects have run: the preview shown is
\* file 2's URL, and file 1's URL, shown before, is revoked.
C19_Witness ==
  /\ ShowsPreview
  /\ phase = "idle"
  /\ selectedFile = 2
  /\ imageUrl = 2
  /\ previewUrls[1].revokes = 1
  /\ lastOp.op # "run"

\* a two-item clipboard whose first item is an image file that fails
\* validation (a gif, or a png above the limit) and whose second item is a
\* readable png within the limit
InvalidThenValid(event) ==
  /\ event.data
  /\ Len(event.items) = 2
  /\ event.items[1].readable
  /\ \/ event.items[1].type = <<"image", "gif">>
     \/ event.items[1].type = <<"image", "png">> /\ event.items[1].size > 5242880
  /\ event.items[2].readable
  /\ event.items[2].type = <<"image", "png">>
  /\ event.items[2].size <= 5242880

\* C20: A paste takes the first clipboard item whose type starts with
\* "image/": when that item fails validation the paste is rejected with
\* the validation message of that item and the selection stays as it was,
\* also when a later item is an image that would pass.
C20_FirstImageItemOnly ==
  /\ []((lastOp.op = "pasteRejected" /\ lastOp.later)
          => /\ errorMessage \in {MsgUnsupported, MsgTooLarge}
             /\ errorMessage = files[lastOp.file]
             /\ selectedFile # lastOp.file
             /\ Len(files) = lastOp.file)
  /\ [][\A event \in Clipboards :
          (InvalidThenValid(event) /\ handlePaste(event))
            => /\ lastOp'.op = "pasteRejected"
               /\ lastOp'.candidate = getAsFile(event.items[1])
               /\ selectedFile' = selectedFile
               /\ errorMessage' \in {MsgUnsupported, MsgTooLarge}]_vars

\* A paste of a gif followed by a valid png was rejected as an unsupported
\* format while nothing was selected, and nothing is selected.
C20_Witness ==
  /\ lastOp.op = "pasteRejected"
  /\ lastOp.later
  /\ lastOp.candidate.type = <<"image", "gif">>
  /\ errorMessage = MsgUnsupported
  /\ selectedFile = 0
  /\ Len(files) = 1

====
